---------------------------- MODULE Spec2Model ----------------------------
(***************************************************************************)
(* A model of Whack!: the Board of 9 tile slots (gobs), the GameManager    *)
(* that owns the board and the cursor (lib.rs), and the event loop that    *)
(* delivers update ticks and key presses to it.                            *)
(*                                                                         *)
(* Units.  The f64 lengths of the source are modelled as integers counted  *)
(* in 1/8 pixel: with a window of 300.0 pixels every length the program    *)
(* computes (300/3, 300/16, 0.5 * 300/16, sums and differences of these)   *)
(* is a multiple of 1/8 and exact in f64.  The f64 times are integers      *)
(* counted in milliseconds: with max_time 1.0 and min_time 0.1 the timer   *)
(* reset value 1.0 - 0.9 * score/100 is 1000 - 9 * score.                  *)
(*                                                                         *)
(* The game objects are read from gobs.rs; lib.rs holds the same module    *)
(* inline (Sprite::is_overlapping takes its argument by value there).      *)
(* Every handler is an operator from the manager before the call to the    *)
(* manager after it (to the set of managers, where add_tile draws a random *)
(* slot); the actions deliver one event each, as the loop in start() does. *)
(***************************************************************************)
EXTENDS Integers, Sequences, FiniteSets

\* ------------------------------------------------------------ constants

\* const WINDOW_XY: f64 = 300.0 (in 1/8 pixel).
WINDOW_XY == 2400
\* GameManager::new(WINDOW_XY, 1.0, 0.1) in run(): the timing bounds (ms).
MAX_TIME == 1000
MIN_TIME == 100
\* pub type Tiles = [Option<Sprite>; 9]
NTILES == 9

\* ------------------------------------------------------------ bounds

\* A whack that would take the score above MaxScore is not delivered.
MaxScore == 1
\* Movement keys that would take the cursor further than MaxDist cells
\* (Manhattan distance) from its start position are not delivered.
MaxDist == 2
\* A board takes at most MaxAdds add_tile() calls between two clear_board()
\* calls: a tick that would make one more is not delivered, nor is one more
\* call made on a board used on its own.  A game makes 9 + MaxScore at most.
MaxAdds == 10

\* The frame times an update tick may carry (ms): one below the spawn timer
\* (two such ticks bring a fresh timer to exactly 0) and one above it.
DtSet == {500, 1001}

\* piston::input::Key: the keys the game reads, and one it does not.
Keys == {"Up", "Down", "Left", "Right", "Space", "Other"}

\* enum GameState
GameState == {"Ready", "Playing", "Win", "Lose"}

\* colours
RED == "RED"
YELLOW == "YELLOW"

\* Option<T>: None, Some(v), and the accessors used by the source.
None == << >>
Some(v) == << v >>
is_some(o) == Len(o) = 1
is_none(o) == Len(o) = 0
unwrap(o) == o[1]

Indices == 0 .. (NTILES - 1)
\* The indices in the order tiles.iter().enumerate() visits them.
IndexSeq == [k \in 1 .. NTILES |-> k - 1]

Abs(n) == IF n < 0 THEN -n ELSE n

\* ------------------------------------------------------------ gobs

\* Vec2D { x, y }
Vec2D(x, y) == [x |-> x, y |-> y]

\* Vec2D::add
vec_add(v, other) == [x |-> v.x + other.x, y |-> v.y + other.y]

\* Sprite::new
sprite_new(x, y, width, height, colour) ==
    [pos |-> Vec2D(x, y), width |-> width, height |-> height, colour |-> colour]

\* Sprite::get_rect
get_rect(s) == << s.pos.x, s.pos.y, s.width, s.height >>

\* Mutant of is_overlapping: rectangles that only touch count as apart.
is_overlapping_strict(self, other) ==
    IF \/ self.pos.x + self.width <= other.pos.x
       \/ other.pos.x + other.width <= self.pos.x
       \/ self.pos.y + self.height <= other.pos.y
       \/ other.pos.y + other.height <= self.pos.y
    THEN FALSE
    ELSE TRUE

\* Sprite::is_overlapping
is_overlapping(self, other) ==
    IF \/ self.pos.x + self.width < other.pos.x
       \/ other.pos.x + other.width < self.pos.x
       \/ self.pos.y + self.height < other.pos.y
       \/ other.pos.y + other.height < self.pos.y
    THEN FALSE
    ELSE TRUE

\* Board::from_length
from_length(length) == [tiles |-> [i \in Indices |-> None], length |-> length]

\* Mutant of free_positions: the filter keeps the occupied slots.
free_positions_occupied(b) == SelectSeq(IndexSeq, LAMBDA i : is_some(b.tiles[i]))

\* Board::free_positions
free_positions(b) == SelectSeq(IndexSeq, LAMBDA i : is_none(b.tiles[i]))

\* Mutant of is_full: the board counts as full with one slot still free.
is_full_off_by_one(b) == IF Len(free_positions(b)) <= 1 THEN TRUE ELSE FALSE

\* Board::is_full
is_full(b) == IF Len(free_positions(b)) = 0 THEN TRUE ELSE FALSE

\* Mutant of x_from_index: the column is taken from the row of the index.
x_from_index_by_row(b, i) ==
    LET tile_length == b.length \div 3
    IN  (i \div 3) * tile_length

\* Board::x_from_index
x_from_index(b, i) ==
    LET tile_length == b.length \div 3
    IN  (i % 3) * tile_length

\* Board::y_from_index
y_from_index(b, i) ==
    LET tile_length == b.length \div 3
    IN  (i \div 3) * tile_length

\* rand::sample(&mut rng, free_positions.into_iter(), 1): every vector it may
\* return, one element drawn from the iterator, or none if it is empty.
sample(free) ==
    IF Len(free) = 0 THEN {<< >>} ELSE {<< free[k] >> : k \in 1 .. Len(free)}

\* Mutant of random_position: the draw is among all slots, free or not.
random_position_any(b) == {Some(i) : i \in Indices}

\* Mutant of random_position: no early return when no slot is free.
random_position_unguarded(b) ==
    {Some(s[1]) : s \in {t \in sample(free_positions(b)) : Len(t) >= 1}}

\* Board::random_position: every result the call may return.  sample[0]
\* panics on an empty vector: such a draw gives no result.
random_position(b) ==
    LET free == free_positions(b)
    IN  IF Len(free) = 0
        THEN {None}
        ELSE {Some(s[1]) : s \in {t \in sample(free) : Len(t) >= 1}}

\* Mutant of add_tile: the tile's x and y are taken from each other's formula.
add_tile_swapped_xy(b, new_pos) ==
    IF is_some(new_pos)
    THEN LET i == unwrap(new_pos)
             new_tile == sprite_new(y_from_index(b, i), x_from_index(b, i),
                                    b.length \div 3, b.length \div 3, RED)
         IN  [b EXCEPT !.tiles[i] = Some(new_tile)]
    ELSE b

\* Board::add_tile, new_pos being what random_position returned.
add_tile(b, new_pos) ==
    IF is_some(new_pos)
    THEN LET i == unwrap(new_pos)
             new_tile == sprite_new(x_from_index(b, i), y_from_index(b, i),
                                    b.length \div 3, b.length \div 3, RED)
         IN  [b EXCEPT !.tiles[i] = Some(new_tile)]
    ELSE b

\* Mutant of clear_board: slot 0 is left as it is.
clear_board_keeps_first(b) ==
    [b EXCEPT !.tiles = [i \in Indices |-> IF i = 0 THEN b.tiles[i] ELSE None]]

\* Board::clear_board
clear_board(b) == [b EXCEPT !.tiles = [i \in Indices |-> None]]

\* ------------------------------------------------------------ GameManager

\* GameManager::new (gl, the OpenGL handle, takes no part in the logic)
new(window_size, max_time, min_time) ==
    LET cursor_width == window_size \div 16
        cursor_height == window_size \div 16
    IN  [board |-> from_length(window_size),
         cursor |-> sprite_new((window_size \div 2) - (cursor_width \div 2),
                               (window_size \div 2) - (cursor_height \div 2),
                               cursor_width, cursor_height, YELLOW),
         state |-> "Ready",
         score |-> 0,
         max_time |-> max_time,
         min_time |-> min_time,
         tile_timer |-> 0]

\* impl PartialEq for GameManager
eq(self, other) ==
    /\ self.board = other.board
    /\ self.cursor = other.cursor
    /\ self.state = other.state
    /\ self.score = other.score
    /\ self.max_time = other.max_time
    /\ self.tile_timer = other.tile_timer

\* Mutant of reset: the score is not cleared.
reset_keeps_score(gm) ==
    LET b == clear_board(gm.board)
    IN  [gm EXCEPT !.board = b,
                   !.cursor.pos = Vec2D((b.length \div 2) - (gm.cursor.width \div 2),
                                        (b.length \div 2) - (gm.cursor.height \div 2)),
                   !.state = "Ready",
                   !.tile_timer = 0]

\* Mutant of reset: the spawn timer is left as the lost game set it.
reset_keeps_timer(gm) ==
    LET b == clear_board(gm.board)
    IN  [gm EXCEPT !.board = b,
                   !.cursor.pos = Vec2D((b.length \div 2) - (gm.cursor.width \div 2),
                                        (b.length \div 2) - (gm.cursor.height \div 2)),
                   !.state = "Ready",
                   !.score = 0]

\* GameManager::reset
reset(gm) ==
    LET b == clear_board(gm.board)
    IN  [gm EXCEPT !.board = b,
                   !.cursor.pos = Vec2D((b.length \div 2) - (gm.cursor.width \div 2),
                                        (b.length \div 2) - (gm.cursor.height \div 2)),
                   !.state = "Ready",
                   !.score = 0,
                   !.tile_timer = 0]

\* Mutant of playing_update: a tick that brings the timer to exactly 0 spawns.
playing_update_spawns_at_zero(gm, dt) ==
    LET t1 == gm.tile_timer - dt
        t2 == IF gm.score < 100
              THEN gm.max_time - (((gm.max_time - gm.min_time) * gm.score) \div 100)
              ELSE gm.min_time
        ticked == IF t1 <= 0
                  THEN {[gm EXCEPT !.tile_timer = t2,
                                   !.board = add_tile(gm.board, new_pos)] :
                            new_pos \in random_position(gm.board)}
                  ELSE {[gm EXCEPT !.tile_timer = t1]}
    IN  {IF is_full(g.board) THEN [g EXCEPT !.state = "Lose"] ELSE g : g \in ticked}

\* Mutant of playing_update: the tick never ends the game.
playing_update_never_loses(gm, dt) ==
    LET t1 == gm.tile_timer - dt
        t2 == IF gm.score < 100
              THEN gm.max_time - (((gm.max_time - gm.min_time) * gm.score) \div 100)
              ELSE gm.min_time
    IN  IF t1 < 0
        THEN {[gm EXCEPT !.tile_timer = t2,
                         !.board = add_tile(gm.board, new_pos)] :
                  new_pos \in random_position(gm.board)}
        ELSE {[gm EXCEPT !.tile_timer = t1]}

\* Mutant of playing_update: the timer keeps shrinking past score 100.
playing_update_no_clamp(gm, dt) ==
    LET t1 == gm.tile_timer - dt
        t2 == gm.max_time - (((gm.max_time - gm.min_time) * gm.score) \div 100)
        ticked == IF t1 < 0
                  THEN {[gm EXCEPT !.tile_timer = t2,
                                   !.board = add_tile(gm.board, new_pos)] :
                            new_pos \in random_position(gm.board)}
                  ELSE {[gm EXCEPT !.tile_timer = t1]}
    IN  {IF is_full(g.board) THEN [g EXCEPT !.state = "Lose"] ELSE g : g \in ticked}

\* Mutant of playing_update: the board is tested for fullness before the tick
\* adds its tile, not after.
playing_update_checks_first(gm, dt) ==
    LET t1 == gm.tile_timer - dt
        t2 == IF gm.score < 100
              THEN gm.max_time - (((gm.max_time - gm.min_time) * gm.score) \div 100)
              ELSE gm.min_time
        ticked == IF t1 < 0
                  THEN {[gm EXCEPT !.tile_timer = t2,
                                   !.board = add_tile(gm.board, new_pos)] :
                            new_pos \in random_position(gm.board)}
                  ELSE {[gm EXCEPT !.tile_timer = t1]}
    IN  {IF is_full(gm.board) THEN [g EXCEPT !.state = "Lose"] ELSE g : g \in ticked}

\* GameManager::playing_update: every manager the tick may leave, one for each
\* result of the random_position call inside add_tile.
playing_update(gm, dt) ==
    LET t1 == gm.tile_timer - dt
        t2 == IF gm.score < 100
              THEN gm.max_time - (((gm.max_time - gm.min_time) * gm.score) \div 100)
              ELSE gm.min_time
        ticked == IF t1 < 0
                  THEN {[gm EXCEPT !.tile_timer = t2,
                                   !.board = add_tile(gm.board, new_pos)] :
                            new_pos \in random_position(gm.board)}
                  ELSE {[gm EXCEPT !.tile_timer = t1]}
    IN  {IF is_full(g.board) THEN [g EXCEPT !.state = "Lose"] ELSE g : g \in ticked}

\* Mutant of update: the tick is handled whatever the state.
update_always(gm, dt) == playing_update(gm, dt)

\* GameManager::update
update(gm, dt) ==
    IF gm.state = "Playing" THEN playing_update(gm, dt) ELSE {gm}

\* Mutant of ready_key_press: any key starts the game.
ready_key_press_any_key(gm, key) == [gm EXCEPT !.state = "Playing"]

\* GameManager::ready_key_press
ready_key_press(gm, key) ==
    IF key = "Space" THEN [gm EXCEPT !.state = "Playing"] ELSE gm

\* Mutant of lose_key_press: Space restarts the game without the Ready stop.
lose_key_press_replay(gm, key) ==
    IF key = "Space" THEN [reset(gm) EXCEPT !.state = "Playing"] ELSE gm

\* GameManager::lose_key_press
lose_key_press(gm, key) ==
    IF key = "Space" THEN [reset(gm) EXCEPT !.state = "Ready"] ELSE gm

\* Mutant of handle_movement: Up and Down are taken for each other.
handle_movement_up_is_down(gm, key) ==
    IF key \in {"Up", "Down", "Left", "Right"}
    THEN LET move_dist == gm.board.length \div 3
             move_vec == CASE key = "Up" -> Vec2D(0, move_dist)
                           [] key = "Down" -> Vec2D(0, -move_dist)
                           [] key = "Right" -> Vec2D(move_dist, 0)
                           [] key = "Left" -> Vec2D(-move_dist, 0)
                           [] OTHER -> Vec2D(0, 0)
         IN  [gm EXCEPT !.cursor.pos = vec_add(gm.cursor.pos, move_vec)]
    ELSE gm

\* Mutant of handle_movement: the cursor is kept on the board.
handle_movement_clamped(gm, key) ==
    IF key \in {"Up", "Down", "Left", "Right"}
    THEN LET move_dist == gm.board.length \div 3
             move_vec == CASE key = "Up" -> Vec2D(0, -move_dist)
                           [] key = "Down" -> Vec2D(0, move_dist)
                           [] key = "Right" -> Vec2D(move_dist, 0)
                           [] key = "Left" -> Vec2D(-move_dist, 0)
                           [] OTHER -> Vec2D(0, 0)
             moved == vec_add(gm.cursor.pos, move_vec)
         IN  IF /\ 0 <= moved.x /\ moved.x <= gm.board.length
                /\ 0 <= moved.y /\ moved.y <= gm.board.length
             THEN [gm EXCEPT !.cursor.pos = moved]
             ELSE gm
    ELSE gm

\* Mutant of handle_movement: the cursor moves by half a cell.
handle_movement_half_step(gm, key) ==
    IF key \in {"Up", "Down", "Left", "Right"}
    THEN LET move_dist == gm.board.length \div 6
             move_vec == CASE key = "Up" -> Vec2D(0, -move_dist)
                           [] key = "Down" -> Vec2D(0, move_dist)
                           [] key = "Right" -> Vec2D(move_dist, 0)
                           [] key = "Left" -> Vec2D(-move_dist, 0)
                           [] OTHER -> Vec2D(0, 0)
         IN  [gm EXCEPT !.cursor.pos = vec_add(gm.cursor.pos, move_vec)]
    ELSE gm

\* GameManager::handle_movement
handle_movement(gm, key) ==
    IF key \in {"Up", "Down", "Left", "Right"}
    THEN LET move_dist == gm.board.length \div 3
             move_vec == CASE key = "Up" -> Vec2D(0, -move_dist)
                           [] key = "Down" -> Vec2D(0, move_dist)
                           [] key = "Right" -> Vec2D(move_dist, 0)
                           [] key = "Left" -> Vec2D(-move_dist, 0)
                           [] OTHER -> Vec2D(0, 0)
         IN  [gm EXCEPT !.cursor.pos = vec_add(gm.cursor.pos, move_vec)]
    ELSE gm

\* GameManager::whack: the indices of the tiles that overlap the cursor.
overlapping(gm) ==
    SelectSeq(IndexSeq,
              LAMBDA i : IF is_some(gm.board.tiles[i])
                         THEN is_overlapping(unwrap(gm.board.tiles[i]), gm.cursor)
                         ELSE FALSE)

\* GameManager::whack: assert_eq!(overlapping.len(), 1) fails.
whack_panics(gm, key) ==
    /\ key = "Space"
    /\ Len(overlapping(gm)) > 0
    /\ Len(overlapping(gm)) # 1

\* Mutant of whack: a Space press that hits no tile scores all the same.
whack_scores_miss(gm, key) ==
    IF key = "Space"
    THEN IF Len(overlapping(gm)) > 0
         THEN [gm EXCEPT !.board.tiles[overlapping(gm)[1]] = None,
                         !.score = gm.score + 1]
         ELSE [gm EXCEPT !.score = gm.score + 1]
    ELSE gm

\* Mutant of whack: clearing the board of its last tile wins the game.
whack_wins(gm, key) ==
    IF key = "Space" /\ Len(overlapping(gm)) > 0
    THEN LET g == [gm EXCEPT !.board.tiles[overlapping(gm)[1]] = None,
                             !.score = gm.score + 1]
         IN  IF Len(free_positions(g.board)) = NTILES
             THEN [g EXCEPT !.state = "Win"]
             ELSE g
    ELSE gm

\* Mutant of whack: the score is counted but the tile stays on the board.
whack_keeps_tile(gm, key) ==
    IF key = "Space" /\ Len(overlapping(gm)) > 0
    THEN [gm EXCEPT !.score = gm.score + 1]
    ELSE gm

\* GameManager::whack
whack(gm, key) ==
    IF key = "Space" /\ Len(overlapping(gm)) > 0
    THEN [gm EXCEPT !.board.tiles[overlapping(gm)[1]] = None,
                    !.score = gm.score + 1]
    ELSE gm

\* GameManager::playing_key_press
playing_key_press(gm, key) == whack(handle_movement(gm, key), key)

\* GameManager::input
input(gm, key) ==
    CASE gm.state = "Ready" -> ready_key_press(gm, key)
      [] gm.state = "Playing" -> playing_key_press(gm, key)
      [] gm.state = "Lose" -> lose_key_press(gm, key)
      [] OTHER -> gm

\* GameManager::input: the whack assertion fails while handling the key.
input_panics(gm, key) ==
    gm.state = "Playing" /\ whack_panics(handle_movement(gm, key), key)

\* Mutant of get_sprites: the cursor is pushed first, under the tiles.
get_sprites_cursor_first(gm) ==
    LET some == SelectSeq(IndexSeq, LAMBDA i : is_some(gm.board.tiles[i]))
        sprites == [k \in 1 .. Len(some) |-> unwrap(gm.board.tiles[some[k]])]
    IN  << gm.cursor >> \o sprites

\* GameManager::get_sprites
get_sprites(gm) ==
    LET some == SelectSeq(IndexSeq, LAMBDA i : is_some(gm.board.tiles[i]))
        sprites == [k \in 1 .. Len(some) |-> unwrap(gm.board.tiles[some[k]])]
    IN  Append(sprites, gm.cursor)

\* ------------------------------------------------------------ the event loop

VARIABLES
    game,       \* let mut game = GameManager::new(..) in run()
    panicked,   \* the process has aborted on a failed assertion
    idle_event, \* history: the event delivered (or the Board method called)
                \* last, kept when it came while no game was being played
                \* (state other than Playing)
    adds,       \* history: the add_tile() calls since the board was last
                \* emptied as a whole (from_length, clear_board, reset)
    moves,      \* history: the movement keys handled since the last reset,
                \* net: dx = Rights - Lefts, dy = Downs - Ups
    ticks       \* history: the update ticks that each outran the spawn timer,
                \* delivered back to back since the Space press that started
                \* the game (-1: some other event came in between)

vars == << game, panicked, idle_event, adds, moves, ticks >>

\* The number of occupied slots.
Occupied(b) == Cardinality({i \in Indices : is_some(b.tiles[i])})

\* The cursor's distance from its start position, in cells.
CursorDist(gm) ==
    LET start == new(gm.board.length, gm.max_time, gm.min_time).cursor.pos
        cell == gm.board.length \div 3
    IN  (Abs(gm.cursor.pos.x - start.x) + Abs(gm.cursor.pos.y - start.y)) \div cell

\* The managers the bounds let the event loop reach.
WithinBounds(gm) == gm.score <= MaxScore /\ CursorDist(gm) <= MaxDist

NoEvent == [op |-> "none", key |-> "Other", dt |-> 0]
UpdateEvent(dt) == [op |-> "update", key |-> "Other", dt |-> dt]
InputEvent(key) == [op |-> "input", key |-> key, dt |-> 0]
CallEvent(method) == [op |-> method, key |-> "Other", dt |-> 0]

\* run(): let mut game = GameManager::new(WINDOW_XY, 1.0, 0.1)
Init ==
    /\ game = new(WINDOW_XY, MAX_TIME, MIN_TIME)
    /\ panicked = FALSE
    /\ idle_event = NoEvent
    /\ adds = 0
    /\ ticks = -1
    /\ moves = [dx |-> 0, dy |-> 0]

\* start(): if let Some(u) = e.update_args() { self.update(&u) }
Update(dt) ==
    /\ ~panicked
    /\ (game.state = "Playing" /\ game.tile_timer - dt < 0) => adds < MaxAdds
    /\ game' \in update(game, dt)
    /\ idle_event' = IF game.state # "Playing" THEN UpdateEvent(dt) ELSE NoEvent
    /\ adds' = IF game.state = "Playing" /\ game.tile_timer - dt < 0
               THEN adds + 1
               ELSE adds
    /\ ticks' = IF ticks >= 0 /\ game.state = "Playing" /\ dt > game.tile_timer
                THEN ticks + 1
                ELSE -1
    /\ UNCHANGED << panicked, moves >>

\* start(): if let Some(Button::Keyboard(key)) = e.press_args() { self.input(key) }
Input(key) ==
    /\ ~panicked
    /\ IF input_panics(game, key)
       THEN /\ panicked' = TRUE
            /\ UNCHANGED game
       ELSE /\ WithinBounds(input(game, key))
            /\ game' = input(game, key)
            /\ UNCHANGED panicked
    /\ idle_event' = IF game.state # "Playing" THEN InputEvent(key) ELSE NoEvent
    /\ adds' = IF game.state = "Lose" /\ key = "Space" THEN 0 ELSE adds
    /\ moves' = CASE game.state = "Playing" ->
                       [dx |-> moves.dx + (IF key = "Right" THEN 1 ELSE 0)
                                        - (IF key = "Left" THEN 1 ELSE 0),
                        dy |-> moves.dy + (IF key = "Down" THEN 1 ELSE 0)
                                        - (IF key = "Up" THEN 1 ELSE 0)]
                   [] game.state = "Lose" /\ key = "Space" -> [dx |-> 0, dy |-> 0]
                   [] OTHER -> moves
    /\ ticks' = IF game.state = "Ready" /\ key = "Space" THEN 0 ELSE -1

Next ==
    \/ \E dt \in DtSet : Update(dt)
    \/ \E key \in Keys : Input(key)

Spec == Init /\ [][Next]_vars

\* ------------------------------------------------------------ the board alone

\* The Board used on its own through its public methods, as gobs' tests use
\* it: board.add_tile() and board.clear_board() in any order.
BoardAddTile ==
    /\ adds < MaxAdds
    /\ game' \in {[game EXCEPT !.board = add_tile(game.board, new_pos)] :
                     new_pos \in random_position(game.board)}
    /\ idle_event' = CallEvent("add_tile")
    /\ adds' = adds + 1
    /\ UNCHANGED << panicked, moves, ticks >>

BoardClearBoard ==
    /\ game' = [game EXCEPT !.board = clear_board(game.board)]
    /\ idle_event' = CallEvent("clear_board")
    /\ adds' = 0
    /\ UNCHANGED << panicked, moves, ticks >>

BoardNext == BoardAddTile \/ BoardClearBoard

SpecBoard == Init /\ [][BoardNext]_vars

\* ------------------------------------------------------------ properties

\* What the properties say of geometry, stated without the program's test:
\* two rectangles meet when their projections on both axes intersect.
RectsMeet(a, b) ==
    /\ a.pos.x <= b.pos.x + b.width
    /\ b.pos.x <= a.pos.x + a.width
    /\ a.pos.y <= b.pos.y + b.height
    /\ b.pos.y <= a.pos.y + a.height

\* The occupied slots whose tile meets the cursor.
UnderCursor(gm) ==
    {i \in Indices : /\ gm.board.tiles[i] # None
                     /\ RectsMeet(gm.board.tiles[i][1], gm.cursor)}

\* The empty slots.
FreeSlots(b) == {i \in Indices : b.tiles[i] = None}

\* The cursor is centred on the board.
Centred(gm) ==
    /\ 2 * gm.cursor.pos.x + gm.cursor.width = gm.board.length
    /\ 2 * gm.cursor.pos.y + gm.cursor.height = gm.board.length

\* The manager run() constructs.
Fresh == new(WINDOW_XY, MAX_TIME, MIN_TIME)

\* The mutation of tests::reset_game: cursor.pos.x = 50.0, two add_tile calls
\* (p1, p2 being what random_position returned), state = Lose, score = 200.
reset_game_mutation(gm, p1, p2) ==
    [gm EXCEPT !.cursor.pos.x = 400,
               !.board = add_tile(add_tile(gm.board, p1), p2),
               !.state = "Lose",
               !.score = 200]

\* ------------------------------------------------------------ C1

\* C1: an update tick delivered while the state is Playing leaves the state
\* Lose if and only if all 9 slots are occupied at the end of the tick, and
\* leaves it Playing otherwise.
C1_TickLosesIffFull ==
    game.state = "Playing" =>
        \A dt \in DtSet : \A g \in update(game, dt) :
            /\ g.state = "Lose" <=> Occupied(g.board) = NTILES
            /\ Occupied(g.board) # NTILES => g.state = "Playing"

\* A tick has filled the last slot and the game is lost.
C1_Witness ==
    /\ game.state = "Lose"
    /\ Occupied(game.board) = NTILES
    /\ idle_event = NoEvent

\* ------------------------------------------------------------ C2

\* C2: in Ready a Space key press changes the state to Playing and nothing
\* else (board, cursor, score, tile_timer); any other key press changes
\* nothing at all.
C2_ReadyKeyPress ==
    game.state = "Ready" =>
        \A key \in Keys :
            /\ ~input_panics(game, key)
            /\ input(game, key) = IF key = "Space"
                                  THEN [game EXCEPT !.state = "Playing"]
                                  ELSE game

\* Space has just been pressed in Ready: the game is on, all else as it was.
C2_Witness ==
    /\ idle_event = InputEvent("Space")
    /\ game = [Fresh EXCEPT !.state = "Playing"]

\* ------------------------------------------------------------ C3

\* C3: in Lose a Space key press leaves the state Ready (not Playing), the
\* board empty, score 0, tile_timer 0 and the cursor centred; any other key
\* press, movement keys included, changes nothing.
C3_LoseKeyPress ==
    game.state = "Lose" =>
        \A key \in Keys :
            LET g == input(game, key)
            IN  /\ ~input_panics(game, key)
                /\ key = "Space" =>
                      /\ g.state = "Ready"
                      /\ Occupied(g.board) = 0
                      /\ g.score = 0
                      /\ g.tile_timer = 0
                      /\ Centred(g)
                      /\ g.board.length = game.board.length
                      /\ g.cursor.width = game.cursor.width
                      /\ g.cursor.height = game.cursor.height
                      /\ g.max_time = game.max_time
                      /\ g.min_time = game.min_time
                /\ key # "Space" => g = game

\* Space has just been pressed in Lose: the game is back in Ready.
C3_Witness ==
    /\ idle_event = InputEvent("Space")
    /\ game.state = "Ready"
    /\ Occupied(game.board) = 0

\* ------------------------------------------------------------ C4

\* C4 (the test): reset() undoes the mutation of tests::reset_game applied to
\* a fresh manager, whichever slots the two add_tile calls fill.
C4_TestMutationUndone ==
    \A p1 \in random_position(Fresh.board) :
        \A p2 \in random_position(add_tile(Fresh.board, p1)) :
            LET game2 == reset_game_mutation(Fresh, p1, p2)
            IN  ~eq(Fresh, game2) /\ eq(Fresh, reset(game2))

\* C4: from every manager the event loop can reach (and from the mutated
\* manager of the test), reset() gives a manager equal to a freshly
\* constructed one: board empty, cursor at the centred start position, state
\* Ready, score 0, tile_timer 0, max_time unchanged.
C4_ResetEqualsNew ==
    LET g == reset(game)
    IN  /\ eq(g, Fresh)
        /\ Occupied(g.board) = 0
        /\ Centred(g)
        /\ g.state = "Ready"
        /\ g.score = 0
        /\ g.tile_timer = 0
        /\ g.max_time = game.max_time
        /\ C4_TestMutationUndone

\* reset() has just run on a lost game, whose board was full, and the manager
\* is equal to a fresh one again.
C4_Witness ==
    /\ idle_event = InputEvent("Space")
    /\ game.state = "Ready"
    /\ eq(game, Fresh)

\* ------------------------------------------------------------ C5

\* C5: in Playing a Space key press with an occupied tile under the cursor
\* removes that tile and no other and adds exactly 1 to the score; with no
\* tile under the cursor it leaves board and score as they were.  Either
\* way the state stays Playing and cursor and tile_timer are unchanged.
C5_Whack ==
    game.state = "Playing" =>
        LET g == input(game, "Space")
            hit == UnderCursor(game)
        IN  /\ ~input_panics(game, "Space")
            /\ hit # {} =>
                  /\ \E i \in hit :
                        g.board = [game.board EXCEPT !.tiles[i] = None]
                  /\ Occupied(g.board) = Occupied(game.board) - 1
                  /\ g.score = game.score + 1
            /\ hit = {} => g.board = game.board /\ g.score = game.score
            /\ g.state = "Playing"
            /\ g.cursor = game.cursor
            /\ g.tile_timer = game.tile_timer
            /\ g.max_time = game.max_time
            /\ g.min_time = game.min_time

\* A tile has been whacked (the score counts it) and the cursor now stands
\* on an empty slot of the board, so that a second Space press hits nothing.
C5_Witness ==
    /\ game.state = "Playing"
    /\ game.score = 1
    /\ UnderCursor(game) = {}
    /\ CursorDist(game) <= 1
    /\ Occupied(game.board) = 1

\* ------------------------------------------------------------ C6

\* C6: in every state the event loop can reach, the cursor off the board
\* included, at most one occupied tile meets the cursor (touching counts),
\* so that assert_eq!(overlapping.len(), 1) in whack never fails.
C6_AtMostOneUnderCursor ==
    /\ ~panicked
    /\ Cardinality(UnderCursor(game)) <= 1
    /\ Len(overlapping(game)) <= 1
    /\ \A key \in Keys : ~input_panics(game, key)

\* After a whack, the cursor stands on a tile whose neighbours are all
\* occupied, and only that tile is under it.
C6_Witness ==
    /\ game.state = "Playing"
    /\ game.score = 1
    /\ Occupied(game.board) = NTILES - 1
    /\ Cardinality(UnderCursor(game)) = 1

\* ------------------------------------------------------------ C7

\* C7: after the Space press that starts a game from Ready and then n update
\* ticks in a row whose dt each exceeds the tile_timer of the moment, no key
\* pressed in between: for n < 9 the state is Playing with exactly n tiles on
\* the board, and for n = 9 the board is full and the state is Lose.
C7_NineTicksLose ==
    ticks >= 0 =>
        IF ticks < NTILES
        THEN game.state = "Playing" /\ Occupied(game.board) = ticks
        ELSE ticks = NTILES /\ game.state = "Lose" /\ Occupied(game.board) = NTILES

\* The ninth such tick has been delivered.
C7_Witness ==
    /\ ticks = NTILES
    /\ game.state = "Lose"
    /\ game.score = 0

\* ------------------------------------------------------------ C8

\* C8: add_tile() on a board with k > 0 free slots leaves k - 1 free slots: it
\* fills one slot that was free, and every other slot, the occupied ones
\* included, holds what it held, whichever index the random choice returns.
C8_AddTileFillsOneFreeSlot ==
    FreeSlots(game.board) # {} =>
        /\ random_position(game.board) # {}
        /\ \A new_pos \in random_position(game.board) :
              LET b == add_tile(game.board, new_pos)
              IN  /\ Cardinality(FreeSlots(b)) = Cardinality(FreeSlots(game.board)) - 1
                  /\ \E i \in FreeSlots(game.board) :
                        /\ b.tiles[i] # None
                        /\ \A j \in Indices \ {i} : b.tiles[j] = game.board.tiles[j]
                  /\ b.length = game.board.length

\* add_tile() has filled a slot of a board that already held tiles.
C8_Witness ==
    /\ Occupied(game.board) = 5
    /\ game.state = "Ready"

\* ------------------------------------------------------------ C9

\* C9: add_tile() on a full board returns (no panic) and changes neither the
\* 9 tiles nor the length of the board.
C9_AddTileOnFullBoard ==
    FreeSlots(game.board) = {} =>
        /\ random_position(game.board) # {}
        /\ \A new_pos \in random_position(game.board) :
              add_tile(game.board, new_pos) = game.board

\* The board has been filled by 9 add_tile() calls, and add_tile() is called
\* on it again.
C9_Witness ==
    /\ Occupied(game.board) = NTILES
    /\ game.state = "Ready"
    /\ ENABLED BoardAddTile

\* ------------------------------------------------------------ C10

\* C10: an update tick delivered while the state is Ready, Lose or Win changes
\* nothing in the manager (tile_timer, board, state, score, cursor), whatever
\* dt is.  Win is never entered by the event loop: it is set here as a caller
\* of the public field could set it.
C10_IdleTickChangesNothing ==
    \A dt \in DtSet \cup {0} :
        /\ game.state # "Playing" => update(game, dt) = {game}
        /\ \A st \in GameState \ {"Playing"} :
              LET g == [game EXCEPT !.state = st]
              IN  update(g, dt) = {g}

\* A tick has just been delivered to a lost game, and its timer and board are
\* as the last tick of the game left them.
C10_Witness ==
    /\ idle_event.op = "update"
    /\ game.state = "Lose"
    /\ Occupied(game.board) = NTILES
    /\ game.tile_timer = MAX_TIME

\* ------------------------------------------------------------ C11

\* The unit vector of a movement key: Up = -y, Down = +y, Left = -x, Right = +x.
KeyDirection(key) ==
    CASE key = "Up" -> [x |-> 0, y |-> -1]
      [] key = "Down" -> [x |-> 0, y |-> 1]
      [] key = "Left" -> [x |-> -1, y |-> 0]
      [] key = "Right" -> [x |-> 1, y |-> 0]

\* The cursor lies wholly outside the board.
OffBoard(gm) ==
    \/ gm.cursor.pos.x + gm.cursor.width < 0
    \/ gm.cursor.pos.x > gm.board.length
    \/ gm.cursor.pos.y + gm.cursor.height < 0
    \/ gm.cursor.pos.y > gm.board.length

\* C11: in Playing each Up/Down/Left/Right key press moves the cursor by
\* exactly a third of the board length in the key's direction, on the board
\* or off it (no clamping), and changes nothing else: board, score, state,
\* tile_timer and the cursor's size stay as they were.
C11_MovementTranslatesCursor ==
    game.state = "Playing" =>
        \A key \in {"Up", "Down", "Left", "Right"} :
            LET g == input(game, key)
                d == KeyDirection(key)
            IN  /\ ~input_panics(game, key)
                /\ 3 * (g.cursor.pos.x - game.cursor.pos.x) = d.x * game.board.length
                /\ 3 * (g.cursor.pos.y - game.cursor.pos.y) = d.y * game.board.length
                /\ g = [game EXCEPT !.cursor.pos = g.cursor.pos]

\* Movement keys have taken the cursor off the board during a game.
C11_Witness ==
    /\ game.state = "Playing"
    /\ OffBoard(game)
    /\ Occupied(game.board) > 0

\* ------------------------------------------------------------ C12

\* The scores a game is picked up at: around 0, mid-way, and around the 100
\* at which the timer stops shrinking.
Scores == {0, 1, 50, 98, 99, 100, 101}

\* The timing bounds the source constructs a manager with (ms): run() uses
\* 1.0 and 0.1, tests::make_manager 3.0 and 1.0.
Timings == {[max |-> MAX_TIME, min |-> MIN_TIME], [max |-> 3000, min |-> 1000]}

\* A game in progress with some score behind it and its spawn timer run out.
InitTimer ==
    /\ \E sc \in Scores : \E tm \in Timings :
          game = [new(WINDOW_XY, tm.max, tm.min) EXCEPT !.state = "Playing",
                                                        !.score = sc]
    /\ panicked = FALSE
    /\ idle_event = NoEvent
    /\ adds = 0
    /\ ticks = -1
    /\ moves = [dx |-> 0, dy |-> 0]

\* Update ticks alone, until the board is full.
NextTimer == \E dt \in DtSet : Update(dt)

SpecTimer == InitTimer /\ [][NextTimer]_vars

\* The values a tick that outruns the timer may reset it to.
ResetValues(gm, dt) == {g.tile_timer : g \in update(gm, dt)}

\* C12: a tick in Playing that takes tile_timer below 0 resets it to
\* max_time - (max_time - min_time) * score / 100 while score < 100 and to
\* min_time from score 100 on; the value lies between min_time and max_time,
\* is max_time at score 0, and is no larger at score + 1 than at score.
C12_TimerReset ==
    game.state = "Playing" =>
        \A dt \in DtSet :
            game.tile_timer - dt < 0 =>
                /\ \A v \in ResetValues(game, dt) :
                      /\ game.score < 100 =>
                            100 * v = 100 * game.max_time
                                      - (game.max_time - game.min_time) * game.score
                      /\ game.score >= 100 => v = game.min_time
                      /\ game.min_time <= v /\ v <= game.max_time
                      /\ game.score = 0 => v = game.max_time
                      /\ \A w \in ResetValues([game EXCEPT !.score = game.score + 1], dt) :
                            w <= v
                /\ ResetValues(game, dt) # {}

\* A tick has reset the timer of a game whose score is past 100, to min_time.
C12_Witness ==
    /\ game.state = "Playing"
    /\ game.score = 101
    /\ Occupied(game.board) = 2
    /\ game.tile_timer = game.min_time

\* ------------------------------------------------------------ C13

\* C13: in every state get_sprites() is the occupied tiles in ascending order
\* of their board index, then the cursor as the last element: its length is
\* the number of occupied slots plus 1.  (It takes &self: the operator reads
\* the manager and returns the list, and there is nothing for it to change.)
C13_SpritesThenCursor ==
    LET sprites == get_sprites(game)
        n == Occupied(game.board)
    IN  /\ Len(sprites) = n + 1
        /\ sprites[n + 1] = game.cursor
        /\ \A i \in Indices :
              game.board.tiles[i] # None =>
                  LET rank == Cardinality({j \in Indices :
                                             j < i /\ game.board.tiles[j] # None})
                  IN  sprites[rank + 1] = game.board.tiles[i][1]

\* A board with several tiles and slot 0 empty, so that positions in the
\* list differ from board indices.
C13_Witness ==
    /\ Len(get_sprites(game)) = 4
    /\ game.board.tiles[0] = None
    /\ game.board.tiles[8] # None

\* ------------------------------------------------------------ C14

\* C14: the state Win is never entered: in every state the event loop can
\* reach, the state is Ready, Playing or Lose.
C14_WinNeverEntered ==
    /\ game.state \in {"Ready", "Playing", "Lose"}
    /\ game.state # "Win"

\* A game has been played to its end, whacks and all: it is lost, not won.
C14_Witness ==
    /\ game.state = "Lose"
    /\ game.score = MaxScore
    /\ UnderCursor(game) # {}

\* ------------------------------------------------------------ C15

\* C15: in every state reached through add_tile, clear_board, whack, reset and
\* update ticks, each occupied slot i holds exactly one sprite, placed at
\* (x_from_index(i), y_from_index(i)), the top-left corner of cell
\* (i mod 3, i div 3), with width and height a third of the board length;
\* at most 9 slots are occupied.
C15_TilesSitOnTheirCells ==
    /\ Occupied(game.board) <= NTILES
    /\ DOMAIN game.board.tiles = Indices
    /\ \A i \in Indices :
          game.board.tiles[i] # None =>
              /\ Len(game.board.tiles[i]) = 1
              /\ LET tile == game.board.tiles[i][1]
                 IN  /\ tile.pos.x = x_from_index(game.board, i)
                     /\ tile.pos.y = y_from_index(game.board, i)
                     /\ 3 * tile.pos.x = (i % 3) * game.board.length
                     /\ 3 * tile.pos.y = (i \div 3) * game.board.length
                     /\ 3 * tile.width = game.board.length
                     /\ 3 * tile.height = game.board.length

\* Tiles have been added, one has been whacked, and the tiles of the last
\* row and the last column are on the board.
C15_Witness ==
    /\ game.state = "Playing"
    /\ game.score = MaxScore
    /\ game.board.tiles[4] = None
    /\ game.board.tiles[5] # None
    /\ game.board.tiles[7] # None

\* ------------------------------------------------------------ C16

Min(a, b) == IF a < b THEN a ELSE b

\* C16: is_full() holds exactly when free_positions() is empty, and
\* free_positions() lists the indices of the empty slots, each once, in
\* ascending order; so on a board that started empty, after n add_tile()
\* calls and no removal min(n, 9) slots are occupied and is_full() holds
\* exactly when n >= 9.
C16_FreePositionsAndFull ==
    LET free == free_positions(game.board)
    IN  /\ is_full(game.board) <=> free = << >>
        /\ is_full(game.board) <=> FreeSlots(game.board) = {}
        /\ {free[k] : k \in 1 .. Len(free)} = FreeSlots(game.board)
        /\ \A k \in 1 .. Len(free) - 1 : free[k] < free[k + 1]
        /\ Occupied(game.board) = Min(adds, NTILES)
        /\ is_full(game.board) <=> adds >= NTILES

\* add_tile() has been called more than 9 times on a board that started
\* empty: the board is full.
C16_Witness ==
    /\ adds > NTILES
    /\ idle_event = CallEvent("add_tile")
    /\ is_full(game.board)

\* ------------------------------------------------------------ C17

\* C17: from any board, empty, partly filled or full, clear_board() leaves all
\* 9 slots empty: free_positions() is then 0..8 in order, is_full() is false
\* and length is what it was; a second clear_board() changes nothing more.
C17_ClearBoard ==
    LET cleared == clear_board(game.board)
    IN  /\ FreeSlots(cleared) = Indices
        /\ free_positions(cleared) = << 0, 1, 2, 3, 4, 5, 6, 7, 8 >>
        /\ ~is_full(cleared)
        /\ cleared.length = game.board.length
        /\ clear_board(cleared) = cleared

\* clear_board() has just been called and the board is empty.
C17_Witness ==
    /\ idle_event = CallEvent("clear_board")
    /\ FreeSlots(game.board) = Indices
    /\ adds = 0

\* ------------------------------------------------------------ C18

\* Where a cursor sprite is put next to the tiles of a board, as
\* tests::is_overlapping puts it with Sprite::new (1/8 pixel): one unit short
\* of a tile's edge, on the edge, and past it, on both axes.
CursorXs == {-151, -150, 649, 650, 800, 801, 1125, 2400, 2401}
CursorYs == {-151, -150, 1125, 2400, 2401}

\* A board and a cursor sprite constructed at a chosen place.
InitSprites ==
    /\ \E x \in CursorXs : \E y \in CursorYs :
          game = [Fresh EXCEPT !.cursor =
                      sprite_new(x, y, WINDOW_XY \div 16, WINDOW_XY \div 16, YELLOW)]
    /\ panicked = FALSE
    /\ idle_event = NoEvent
    /\ adds = 0
    /\ ticks = -1
    /\ moves = [dx |-> 0, dy |-> 0]

\* The board is filled and cleared under the cursor.
SpecSprites == InitSprites /\ [][BoardNext]_vars

\* Strictly apart along the x axis or along the y axis.
Separated(a, b) ==
    \/ a.pos.x + a.width < b.pos.x
    \/ b.pos.x + b.width < a.pos.x
    \/ a.pos.y + a.height < b.pos.y
    \/ b.pos.y + b.height < a.pos.y

\* The squares of the specification's example and of the doc test.
Square(x, y, side) == sprite_new(x, y, side, side, YELLOW)

C18_Examples ==
    /\ is_overlapping(Square(0, 0, 10), Square(9, 0, 10))
    /\ ~is_overlapping(Square(0, 0, 10), Square(11, 0, 10))
    /\ is_overlapping(Square(0, 0, 10), Square(10, 0, 10))
    /\ is_overlapping(Square(0, 0, 10), Square(10, 10, 10))
    /\ is_overlapping(Square(100, 100, 50), Square(125, 100, 50))
    /\ ~is_overlapping(Square(100, 100, 50), Square(155, 100, 50))
    /\ is_overlapping(Square(125, 100, 50), Square(155, 100, 50))

\* C18: is_overlapping(a, b) is false exactly when the rectangles are
\* strictly apart along the x axis or the y axis, and true otherwise: also
\* when they only touch at an edge or a corner.
C18_OverlapIffNotSeparated ==
    /\ C18_Examples
    /\ \A i \in Indices :
          game.board.tiles[i] # None =>
              LET tile == game.board.tiles[i][1]
              IN  /\ is_overlapping(tile, game.cursor) \in BOOLEAN
                  /\ is_overlapping(tile, game.cursor) = FALSE
                        <=> Separated(tile, game.cursor)
                  /\ is_overlapping(game.cursor, tile) = FALSE
                        <=> Separated(game.cursor, tile)
                  /\ is_overlapping(tile, game.cursor) <=> RectsMeet(tile, game.cursor)
                  /\ is_overlapping(tile, game.cursor)
                        <=> is_overlapping(game.cursor, tile)

\* The cursor touches a tile at one corner only, and the two overlap.
C18_Witness ==
    \E i \in Indices :
        /\ game.board.tiles[i] # None
        /\ game.cursor.pos.x + game.cursor.width = game.board.tiles[i][1].pos.x
        /\ game.cursor.pos.y + game.cursor.height = game.board.tiles[i][1].pos.y
        /\ is_overlapping(game.board.tiles[i][1], game.cursor)

\* ------------------------------------------------------------ C19

\* Board lengths (1/8 pixel), each a multiple of three so that length / 3.0 is
\* exact: the empty length, two small boards and the 300 pixel board of
\* tests::check_x_from_i.
Lengths == {0, 48, 96, WINDOW_XY}

\* A board of a chosen length, as Board::from_length builds it.
InitLength ==
    /\ \E length \in Lengths : game = [Fresh EXCEPT !.board = from_length(length)]
    /\ panicked = FALSE
    /\ idle_event = NoEvent
    /\ adds = 0
    /\ ticks = -1
    /\ moves = [dx |-> 0, dy |-> 0]

\* Tiles come and go on the board; its length stays.
SpecIndex == InitLength /\ [][BoardNext]_vars

\* The coordinates the nine indices map to.
Coordinates(b) == {<< x_from_index(b, i), y_from_index(b, i) >> : i \in Indices}

\* x = (i mod 3) * (L/3), y = floor(i/3) * (L/3), whatever the tiles are.
IndexFormula ==
    \A i \in Indices :
        LET L == game.board.length
        IN  /\ 3 * x_from_index(game.board, i) = (i % 3) * L
            /\ 3 * y_from_index(game.board, i) = (i \div 3) * L
            /\ x_from_index(game.board, i) = x_from_index(from_length(L), i)
            /\ y_from_index(game.board, i) = y_from_index(from_length(L), i)

\* The values asserted by tests::check_x_from_i and tests::check_y_from_i.
C19_Examples ==
    LET board == from_length(WINDOW_XY)
    IN  /\ x_from_index(board, 0) = 0 /\ x_from_index(board, 1) = 800
        /\ x_from_index(board, 2) = 1600 /\ x_from_index(board, 8) = 1600
        /\ y_from_index(board, 0) = 0 /\ y_from_index(board, 1) = 0
        /\ y_from_index(board, 2) = 0 /\ y_from_index(board, 8) = 1600

\* C19, as stated: for every index i in 0..8 and board length L,
\* x_from_index(i) = (i mod 3) * (L/3) and y_from_index(i) = floor(i/3) * (L/3),
\* the result depends only on i and L, and the nine indices map to nine
\* distinct coordinates.  A board of length 0 maps every index to (0, 0).
C19_Original ==
    /\ IndexFormula
    /\ Cardinality(Coordinates(game.board)) = NTILES

\* C19, corrected: the formulas hold for every index and every length and
\* depend only on i and L; the nine coordinates are distinct on every board
\* whose length is not 0, and all equal on a board of length 0.
C19_IndexToCoordinate ==
    /\ C19_Examples
    /\ IndexFormula
    /\ game.board.length # 0 => Cardinality(Coordinates(game.board)) = NTILES
    /\ game.board.length = 0 => Coordinates(game.board) = {<< 0, 0 >>}

\* A small board with its last slot taken: the tile sits in the bottom right
\* cell, two thirds of the length along both axes.
C19_Witness ==
    /\ game.board.length = 48
    /\ game.board.tiles[8] # None
    /\ game.board.tiles[8][1].pos = Vec2D(32, 32)
    /\ x_from_index(game.board, 8) = 32
    /\ y_from_index(game.board, 8) = 32

\* ------------------------------------------------------------ C20

\* What an event can make of the manager: a tick of any length, or a key
\* press that does not panic.
AfterEvent(gm) ==
    UNION {update(gm, dt) : dt \in DtSet}
        \cup {input(gm, key) : key \in {k \in Keys : ~input_panics(gm, k)}}

\* C20: in every state reachable from a fresh manager by update ticks and key
\* presses the state is Lose exactly when the board is full; while Playing the
\* board holds at most 8 tiles between events; and as long as the state stays
\* Lose the full board stays as it is.
C20_LoseIffFull ==
    /\ game.state = "Lose" <=> Occupied(game.board) = NTILES
    /\ game.state = "Lose" <=> is_full(game.board)
    /\ game.state = "Playing" => Occupied(game.board) <= NTILES - 1
    /\ game.state = "Lose" =>
          \A gm \in AfterEvent(game) :
              /\ gm.state = "Lose" => gm.board = game.board
              /\ gm.state # "Lose" => gm = Fresh

\* The game is lost, and a key other than Space has just been pressed on the
\* full board, which is still full.
C20_Witness ==
    /\ game.state = "Lose"
    /\ idle_event = InputEvent("Up")
    /\ Occupied(game.board) = NTILES
    /\ FreeSlots(game.board) = {}

\* ------------------------------------------------------------ C21

\* C21: in every state reachable from a fresh manager by update ticks and key
\* presses, state = Ready implies that the board is empty, score = 0,
\* tile_timer = 0 and the cursor is at its centred start position: every
\* game starts from the same configuration.
C21_ReadyIsTheStart ==
    game.state = "Ready" =>
        /\ FreeSlots(game.board) = Indices
        /\ game.score = 0
        /\ game.tile_timer = 0
        /\ Centred(game)
        /\ game.cursor.width = WINDOW_XY \div 16
        /\ game.cursor.height = WINDOW_XY \div 16
        /\ game.board.length = WINDOW_XY
        /\ \A key \in Keys : input(game, key).state = "Playing" =>
                              input(game, key) = [Fresh EXCEPT !.state = "Playing"]

\* Ready has been reached again from a lost game: the Space press that came
\* last found the state other than Playing and left it Ready, which only the
\* reset of a lost game does.
C21_Witness ==
    /\ game.state = "Ready"
    /\ idle_event = InputEvent("Space")
    /\ ticks = -1
    /\ adds = 0
    /\ game.tile_timer = 0
    /\ Centred(game)

\* ------------------------------------------------------------ C22

\* Frame times tried on a Playing state: the one that brings the timer to
\* exactly 0, the one a millisecond longer, and one that outruns a hundred
\* spawn periods.
TickSet(gm) == {gm.tile_timer, gm.tile_timer + 1, 100 * MAX_TIME}

\* The slots in which two boards differ.
Changed(b1, b2) == {i \in Indices : b1.tiles[i] # b2.tiles[i]}

\* C22: one update tick in Playing adds exactly one tile when tile_timer - dt
\* is strictly negative and no tile otherwise (a tick that brings tile_timer
\* to exactly 0 does not spawn); it never adds more than one tile however
\* large dt is: the timer is reset to a period between min_time and max_time
\* that does not depend on dt, the overshoot is dropped.
C22_OneTileATick ==
    game.state = "Playing" =>
        LET occupied == Occupied(game.board)
            free == FreeSlots(game.board)
            spawning == {dt \in TickSet(game) : game.tile_timer - dt < 0}
            spawned == UNION {update(game, dt) : dt \in spawning}
        IN  /\ \A dt \in TickSet(game) \ spawning :
                  update(game, dt) = {[game EXCEPT !.tile_timer = game.tile_timer - dt]}
            /\ \A dt \in spawning : update(game, dt) = spawned
            /\ \A g \in spawned :
                  /\ Occupied(g.board) = occupied + 1
                  /\ Cardinality(Changed(game.board, g.board)) = 1
                  /\ Changed(game.board, g.board) \subseteq free
                  /\ g.tile_timer \in game.min_time .. game.max_time
                  /\ g.tile_timer > 0
            /\ spawning = {game.tile_timer + 1, 100 * MAX_TIME}

\* A game in which no tile was whacked and a tick has brought the timer to
\* exactly 0: the board still holds the one tile it held before that tick.
C22_Witness ==
    /\ game.state = "Playing"
    /\ game.score = 0
    /\ game.tile_timer = 0
    /\ Occupied(game.board) = 1
    /\ adds = 1

\* ------------------------------------------------------------ C23

\* The keys delivered where the loop is checked for progress: the cursor
\* moves along one axis only, which keeps the tiles of the middle row within
\* reach of a whack.
LiveKeys == {"Left", "Right", "Space", "Other"}

NextLive ==
    \/ \E dt \in DtSet : Update(dt)
    \/ \E key \in LiveKeys : Input(key)

\* The window keeps delivering update events (while !window.should_close()),
\* each with a frame time of DtSet, which is bounded below by 500 ms.
SpecLive == Init /\ [][NextLive]_vars /\ WF_vars(\E dt \in DtSet : Update(dt))

\* No event but a Space press takes a tile off the board while Playing.
OnlyWhackRemoves ==
    game.state = "Playing" =>
        /\ \A key \in Keys \ {"Space"} :
              input(game, key).board = game.board /\ ~input_panics(game, key)
        /\ \A dt \in DtSet : \A g \in update(game, dt) :
              FreeSlots(g.board) \subseteq FreeSlots(game.board)

\* C23: from any reachable Playing state, if update ticks keep being
\* delivered and no Space press occurs any more, the state eventually becomes
\* Lose: in a run whose Space presses come to an end the state is in the end
\* never Playing again (a run that ended in the failed assertion of whack
\* aside), and Playing is left for Lose only; meanwhile the board only fills.
C23_EventuallyLose ==
    /\ [](game.state = "Playing" =>
            \A dt \in DtSet : \A g \in update(game, dt) : g.state \in {"Playing", "Lose"})
    /\ []OnlyWhackRemoves
    /\ <>[][~Input("Space")]_vars => <>[](game.state # "Playing" \/ panicked)

\* A game with a whack in it, played with the cursor off centre, has been
\* lost, and the ticks keep coming.
C23_Witness ==
    /\ game.state = "Lose"
    /\ game.score = 1
    /\ ~Centred(game)
    /\ idle_event = UpdateEvent(500)
    /\ ~panicked

\* ------------------------------------------------------------ C24

\* The tiles taken off the board since the last reset (or construction):
\* those spawned since then, less those still there.
Removed == adds - Occupied(game.board)

\* C24: in every reachable state score is the number of tiles removed by
\* whacks since the last reset (or construction), and the number of occupied
\* slots is (tiles spawned since the last reset) - score; score changes only
\* by +1 on a successful whack or to 0 on reset, and never on an update tick
\* or a movement key.
C24_ScoreAccounting ==
    /\ game.score = Removed
    /\ Occupied(game.board) = adds - game.score
    /\ game.score >= 0
    /\ \A dt \in DtSet : \A g \in update(game, dt) : g.score = game.score
    /\ \A key \in Keys :
          ~input_panics(game, key) =>
              LET g == input(game, key)
              IN  /\ key # "Space" => g.score = game.score
                  /\ g.score # game.score =>
                        \/ /\ game.state = "Playing"
                           /\ g.score = game.score + 1
                           /\ Occupied(g.board) = Occupied(game.board) - 1
                           /\ FreeSlots(game.board) \subseteq FreeSlots(g.board)
                        \/ /\ game.state = "Lose"
                           /\ g.score = 0
                           /\ g.state = "Ready"
                           /\ Occupied(g.board) = 0

\* A game in progress: four tiles spawned, one of them whacked, three left.
C24_Witness ==
    /\ game.state = "Playing"
    /\ adds = 4
    /\ game.score = 1
    /\ Occupied(game.board) = 3

\* ------------------------------------------------------------ C25

\* The cell the cursor has been moved to lies on the board.
OnTheBoard == moves.dx \in -1 .. 1 /\ moves.dy \in -1 .. 1

\* The index of that cell.
CellIndex == (1 + moves.dx) + 3 * (1 + moves.dy)

\* C25: in Playing, with the cursor moved a net (dx, dy) cells from its start
\* position (dx = Rights - Lefts, dy = Downs - Ups since the last reset), a
\* Space press removes the tile at index (1 + dx) + 3 * (1 + dy), and scores,
\* when -1 <= dx <= 1, -1 <= dy <= 1 and that slot is occupied; it removes no
\* tile and leaves the score as it is otherwise, as whenever the cursor is
\* off the board.
C25_WhackHitsTheCursorCell ==
    game.state = "Playing" =>
        LET g == input(game, "Space")
        IN  /\ ~input_panics(game, "Space")
            /\ 3 * (game.cursor.pos.x - Fresh.cursor.pos.x) = moves.dx * game.board.length
            /\ 3 * (game.cursor.pos.y - Fresh.cursor.pos.y) = moves.dy * game.board.length
            /\ IF OnTheBoard /\ game.board.tiles[CellIndex] # None
               THEN /\ g.board.tiles = [game.board.tiles EXCEPT ![CellIndex] = None]
                    /\ g.score = game.score + 1
                    /\ g = [game EXCEPT !.board.tiles[CellIndex] = None,
                                        !.score = game.score + 1]
               ELSE g = game
            /\ ~OnTheBoard => OffBoard(game) /\ g.board = game.board /\ g.score = game.score

\* The cursor has gone one cell right and one cell up, to the top right cell,
\* and the tile there has been whacked: slot 2 is empty, others are not.
C25_Witness ==
    /\ game.state = "Playing"
    /\ moves = [dx |-> 1, dy |-> -1]
    /\ game.score = 1
    /\ game.board.tiles[2] = None
    /\ Occupied(game.board) = 2
    /\ adds = 3

=============================================================================
